---- MODULE Spec2Model ----
(***************************************************************************)
(* Model of Dtwa_BBGKY_System_opt.dtwa_bbgky / evolve                      *)
(* (src/dtwa_quantum_spins/dtwa_bbgky_opt.py): an SPMD run of comm.size    *)
(* MPI processes.  Every process executes dtwa_bbgky; the actions below    *)
(* are the pieces of that method between its blocking collective calls.    *)
(*                                                                         *)
(* Times are exact rationals <<num, den>> (den > 0).  Observable data are  *)
(* integers standing for the per-time, per-channel arrays; a dataset is    *)
(* [raw |-> summed accumulator, div |-> divisor applied by normalize_data].*)
(***************************************************************************)
EXTENDS Integers, Sequences, FiniteSets, TLC

\* ------------------------------------------------------------------ bounds
MaxNt     == 4   \* largest global trajectory count n_t
MaxSize   == 3   \* largest comm.size
MaxSteps  == 5   \* largest n_steps of a (t0, t1, steps) tuple
LatSize   == 2   \* lattice size N (params.latsize)

\* ------------------------------------------------------- program constants
\* consts.root: the coordinating rank (consts.py is not part of src/).
Root == 0

\* Values bound to outdat / returned by dtwa_bbgky.  A dataset
\* [kind |-> "data", raw, div] stands for the accumulator raw divided by div.
NoData   == [kind |-> "unset", raw |-> 0, div |-> 0]
None     == [kind |-> "None",  raw |-> 0, div |-> 0]
NoGrid   == [kind |-> "unset", pts |-> << >>]
Empty    == [full |-> FALSE, val |-> 0]
EmptySeq == [full |-> FALSE, val |-> << >>]
NoPrior  == [seed_offset |-> 0, seeds |-> { }]

VARIABLES
  self,               \* the system object: n_t, seed_offset, verbose, latsize
  comm,               \* the communicator: [size]
  root,               \* the coordinating rank, consts.root
  time_info,          \* argument of evolve / dtwa_bbgky
  sampling,           \* argument of evolve / dtwa_bbgky
  pc,                 \* per rank: position in dtwa_bbgky
  t_output,           \* per rank: resolved time grid
  nt_loc,             \* per rank: local trajectory count
  local_seeds,        \* per rank: received seeds
  runcount,           \* per rank: index of the trajectory loop
  list_of_local_data, \* per rank: per-trajectory observable contributions
  list_of_dhwdt_abs2, \* per rank: per-trajectory |dH/dt|^2 (verbose only)
  outdat,             \* per rank: value bound to outdat
  dhwdt_abs_totals,   \* per rank: reduced diagnostic (root, verbose only)
  ret,                \* per rank: value returned by dtwa_bbgky
  gather_buf,         \* comm.gather: contribution of each rank
  scatter_buf,        \* comm.Scatterv: slice delivered to each rank
  reduce_buf,         \* reduction inside sum_reduce_all_data
  reduce2_buf,        \* temp_comm.reduce of the diagnostic
  normalize_calls,    \* per rank: number of outdat.normalize_data calls
  colls,              \* per rank: collective operations issued so far
  out,                \* per rank: the copy of self made for printing, if any
  np_err,             \* per rank: the process-wide numpy error settings
  old_settings,       \* per rank: value bound to old_settings
  sampled,            \* per rank: the seeds handed to sample() so far
  entry_self,         \* the system object as it was when evolve was called
  entry_err,          \* per rank: np_err as it was when evolve was called
  prior,              \* what the coordinator returned in an earlier run
  prior_sampled       \* offset of and seeds handed to sample() in that run

vars == << self, comm, root, time_info, sampling, pc, t_output, nt_loc,
           local_seeds, runcount, list_of_local_data, list_of_dhwdt_abs2,
           outdat, dhwdt_abs_totals, ret, gather_buf, scatter_buf,
           reduce_buf, reduce2_buf, normalize_calls, colls, out, np_err,
           old_settings, sampled, entry_self, entry_err, prior,
           prior_sampled >>

Ranks == 0 .. (comm.size - 1)

\* ----------------------------------------------------------------- inputs
\* Values of t_init and t_final, and of seed_offset
TimeEnds == { 0, 1 }
Offsets  == { 0, 1 }

\* time_info values: a 3-tuple, a list of times, or anything else (a scalar).
TimeTuples ==
  { [tag |-> "tuple", t_init |-> a, t_final |-> b, n_steps |-> n, times |-> << >>] :
      a \in TimeEnds, b \in TimeEnds, n \in 1..MaxSteps }

TimeLists ==
  { [tag |-> "list", t_init |-> 0, t_final |-> 0, n_steps |-> 0, times |-> s] :
      s \in { << >>, << <<0, 1>> >>, << <<0, 1>>, <<1, 1>> >>, << <<1, 1>>, <<0, 1>> >> } }

TimeScalars ==
  { [tag |-> "scalar", t_init |-> 1, t_final |-> 0, n_steps |-> 0, times |-> << >>] }

TimeInfos == TimeTuples \cup TimeLists \cup TimeScalars

Samplings == { "spr", "1-0", "all" }

\* -------------------------------------------------------- numpy helpers
RECURSIVE SeqSum(_)
SeqSum(s) == IF s = << >> THEN 0 ELSE Head(s) + SeqSum(Tail(s))

\* np.cumsum
CumSum(s) == [ i \in 1..Len(s) |-> SeqSum(SubSeq(s, 1, i)) ]

\* np.roll(s, k): element i moves to position (i + k) mod len
Roll(s, k) ==
  [ i \in 1..Len(s) |-> s[ ((i - 1 - k) % Len(s)) + 1 ] ]

\* ceil(a / b) for b > 0
CeilDiv(a, b) == -((-a) \div b)

\* np.arange(start, stop, dn/dd) for integers start, stop and a step dn/dd
\* with dd > 0 and dn # 0: ceil((stop - start)/step) points start + i*step.
ArangeLen(start, stop, dn, dd) ==
  LET len == IF dn > 0 THEN CeilDiv((stop - start) * dd, dn)
                       ELSE CeilDiv((start - stop) * dd, -dn)
  IN  IF len > 0 THEN len ELSE 0

ArangeClosed(start, stop, dn, dd) ==
  [ i \in 1..(ArangeLen(start, stop, dn, dd) + 1) |-> << start * dd + (i - 1) * dn, dd >> ]

Arange(start, stop, dn, dd) ==
  [ i \in 1..ArangeLen(start, stop, dn, dd) |-> << start * dd + (i - 1) * dn, dd >> ]

\* ------------------------------------------------ lines 125-135: time grid
\* "type(time_info) is list or np.ndarray" is "(type(..) is list) or
\* np.ndarray"; the class object np.ndarray is truthy.
IsListOrNdarray(ti) == (ti.tag = "list") \/ TRUE

\* The outcome of lines 125-135 on a process of the given rank:
\*   "ok"     t_output is bound and the process goes on to line 137,
\*   "raised" the division by n_steps - 1.0 = 0.0 or np.arange with a zero
\*            step raised an exception,
\*   "exit"   exit(0) was called, printed telling whether the message of
\*            line 132 was printed.
ResolveTimeInfoRootOnly(ti, rank, rt) ==
  IF ti.tag = "list" /\ rank = rt
    THEN [outcome |-> "ok", printed |-> FALSE, status |-> 0,
          t |-> [kind |-> "array", pts |-> ti.times]]
    ELSE [outcome |-> "exit", printed |-> rank = rt, status |-> 0, t |-> NoGrid]

ResolveTimeInfo(ti, rank, rt) ==
  IF ti.tag = "tuple"
    THEN LET dn == ti.t_final - ti.t_init     \* dt = dn / dd
             dd == ti.n_steps - 1
         IN  IF dd = 0 \/ dn = 0
               THEN [outcome |-> "raised", printed |-> FALSE, status |-> 1, t |-> NoGrid]
               ELSE [outcome |-> "ok", printed |-> FALSE, status |-> 0,
                     t |-> [kind |-> "array",
                            pts |-> Arange(ti.t_init, ti.t_final, dn, dd)]]
  ELSE IF IsListOrNdarray(ti)
    THEN [outcome |-> "ok", printed |-> FALSE, status |-> 0,
          t |-> IF ti.tag = "list"
                  THEN [kind |-> "array", pts |-> ti.times]
                  ELSE [kind |-> "scalar", pts |-> << << ti.t_init, 1 >> >>]]
  ELSE IF rank = rt
    THEN [outcome |-> "exit", printed |-> TRUE,  status |-> 0, t |-> NoGrid]
    ELSE [outcome |-> "exit", printed |-> FALSE, status |-> 0, t |-> NoGrid]

\* --------------------------------------------- lines 137-142: round robin
RECURSIVE RoundRobin(_, _, _, _)
RoundRobin(iterator, count, n, size) ==
  IF iterator < n THEN RoundRobin(iterator + size, count + 1, n, size) ELSE count

RECURSIVE RoundRobinInclusive(_, _, _, _)
RoundRobinInclusive(iterator, count, n, size) ==
  IF iterator <= n THEN RoundRobinInclusive(iterator + size, count + 1, n, size)
                   ELSE count

NtLocInclusive(rank, n, size) == RoundRobinInclusive(rank, 0, n, size)

NtLoc(rank, n, size) == RoundRobin(rank, 0, n, size)

\* ------------------------------------------ lines 149-160: seeds, scatter
\* np.arange(n_t, dtype=np.int64) + 1
AllSeeds(n) == [ i \in 1..(IF n > 0 THEN n ELSE 0) |-> i ]

\* np.roll(np.cumsum(all_ntlocs), root + 1) without the reset of entry root
AllDisplacementsNoReset(all_ntlocs, rt) == Roll(CumSum(all_ntlocs), rt + 1)

\* np.roll(np.cumsum(all_ntlocs), root + 1); all_displacements[root] = 0
AllDisplacements(all_ntlocs, rt) ==
  [ Roll(CumSum(all_ntlocs), rt + 1) EXCEPT ![rt + 1] = 0 ]

\* What a read outside the send buffer can deliver.
GarbageSeeds == { 0, 1 }

\* comm.Scatterv([all_seeds, counts, displs, MPI.DOUBLE], local_seeds) as
\* seen by rank q: the possible contents of its receive buffer.  The 8-byte
\* elements are copied verbatim; an element outside all_seeds is arbitrary.
ScattervSlices(all_seeds, counts, displs, q) ==
  LET c == counts[q + 1]
      d == displs[q + 1]
  IN  IF \A j \in 1..c : (d + j) \in 1..Len(all_seeds)
        THEN { [ j \in 1..c |-> all_seeds[d + j] ] }
        ELSE { s \in [ 1..c -> (0..Len(all_seeds)) \cup GarbageSeeds ] :
                 \A j \in 1..c :
                   (d + j) \in 1..Len(all_seeds) => s[j] = all_seeds[d + j] }

\* ------------------------------------------- lines 167-193: one trajectory
\* The seed handed to sample(): local_seeds[runcount] + self.seed_offset
SampleSeedByIndex(seeds, rc, offset) == (rc + 1) + offset

SampleSeedNoOffset(seeds, rc, offset) == seeds[rc + 1]

SampleSeed(seeds, rc, offset) == seeds[rc + 1] + offset

\* sample + odeint + bbgky_observables: a deterministic function of the
\* sampling scheme and the seed (funcs.py is not part of src/).
Observables(scheme, seed) ==
  CASE scheme = "spr" -> seed
    [] scheme = "1-0" -> seed * seed + 1
    [] OTHER          -> 2 * seed + 3

\* weyl_hamilt + t_deriv + np.square: the squared energy drift of a trajectory
DhwdtAbs2(scheme, seed) == (seed + 1) * (seed + 1)

\* odeint and the observable routines are handed t_output as it is; on
\* anything but a non-empty array of times their behaviour is not fixed by
\* this repository.
IntegrateOutcomesMayRaise(t) == { "ok", "raise" }

IntegrateOutcomes(t) ==
  IF t.kind = "array" /\ t.pts # << >> THEN { "ok" } ELSE { "ok", "raise" }

\* What is appended to list_of_local_data for one trajectory (line 192-193)
LocalDataWithDrift(scheme, seed, verbose) ==
  Observables(scheme, seed) + (IF verbose THEN DhwdtAbs2(scheme, seed) ELSE 0)

LocalData(scheme, seed, verbose) == Observables(scheme, seed)

\* ------------------------------------------------- lines 195-222: results
\* sum_reduce_all_data on the coordinator: the sum of all ranks' local sums
SumReduced(buf) == [kind |-> "data", raw |-> buf, div |-> 1]

\* OutData.normalize_data(n_t, N): divide the accumulator by n_t
Normalized(d, n, N) == [d EXCEPT !.div = d.div * n]

\* line 209: only the coordinator normalizes
NormalizesEverywhere(rank, rt) == TRUE

Normalizes(rank, rt) == rank = rt

\* lines 219 / 222: the value returned
ReturnValueSwapped(rank, rt, data) == IF rank = rt THEN None ELSE data

ReturnValue(rank, rt, data) == IF rank = rt THEN data ELSE None

\* ---------------------------------------- lines 113-122: run parameters
\* out.dsdotdg = 0.0; out.delta_eps_tensor = 0.0; out.jmat = 0.0;
\* out.deltamn = 0.0
Blanked(obj) ==
  [obj EXCEPT !.dsdotdg = 0, !.delta_eps_tensor = 0, !.jmat = 0, !.deltamn = 0]

\* The object bound to out after lines 113-122, if any
PrintedCopy(obj, rank, rt) ==
  IF rank = rt /\ obj.verbose THEN { Blanked(obj) } ELSE { }

\* self after lines 113-122 had out been bound to self itself
SelfAfterPrintAliased(obj, rank, rt) ==
  IF rank = rt /\ obj.verbose THEN Blanked(obj) ELSE obj

\* self after lines 113-122: out = copy.copy(self) is a new object, and the
\* four assignments rebind attributes of out, not of self
SelfAfterPrint(obj, rank, rt) == obj

\* ------------------------------------------ lines 110, 218, 221: np.seterr
\* np.seterr(all='warn'), numpy's default
RestoredDefault(old) == "warn"

\* np.seterr(**old_settings)
RestoredSettings(old) == old

\* ------------------------------------------------------------------ state
\* The state of every process on entry to dtwa_bbgky
Entry ==
  /\ pc = [ r \in Ranks |-> "start" ]
  /\ t_output = [ r \in Ranks |-> NoGrid ]
  /\ nt_loc = [ r \in Ranks |-> 0 ]
  /\ local_seeds = [ r \in Ranks |-> << >> ]
  /\ runcount = [ r \in Ranks |-> 0 ]
  /\ list_of_local_data = [ r \in Ranks |-> << >> ]
  /\ list_of_dhwdt_abs2 = [ r \in Ranks |-> << >> ]
  /\ outdat = [ r \in Ranks |-> NoData ]
  /\ dhwdt_abs_totals = [ r \in Ranks |-> NoData ]
  /\ ret = [ r \in Ranks |-> NoData ]
  /\ gather_buf = [ r \in Ranks |-> Empty ]
  /\ scatter_buf = [ r \in Ranks |-> EmptySeq ]
  /\ reduce_buf = [ r \in Ranks |-> Empty ]
  /\ reduce2_buf = [ r \in Ranks |-> Empty ]
  /\ normalize_calls = [ r \in Ranks |-> 0 ]
  /\ colls = [ r \in Ranks |-> << >> ]
  /\ out = [ r \in Ranks |-> { } ]
  /\ old_settings = [ r \in Ranks |-> "unset" ]
  /\ sampled = [ r \in Ranks |-> << >> ]

InitRun(rt_set) ==
  /\ self \in [ n_t : (-1)..MaxNt, seed_offset : Offsets,
                verbose : BOOLEAN, latsize : { LatSize },
                jmat : { 1 }, deltamn : { 1 }, dsdotdg : { 1 },
                delta_eps_tensor : { 1 } ]
  /\ comm \in [ size : 1..MaxSize ]
  /\ root \in rt_set
  /\ root < comm.size
  /\ time_info \in TimeInfos
  /\ sampling \in Samplings
  /\ entry_self = self
  /\ prior = NoData
  /\ prior_sampled = NoPrior
  /\ Entry

\* np.seterr settings a process can have when evolve is called
ErrSettings == { "warn", "raise" }

\* numpy's default settings on every process
InitErrDefault ==
  /\ np_err = [ r \in Ranks |-> "warn" ]
  /\ entry_err = np_err

Init ==
  /\ InitRun({ Root })
  /\ InitErrDefault

config == << self, comm, root, time_info, sampling >>

history == << entry_self, entry_err, prior, prior_sampled >>

\* ---------------------------------------------------------------- actions
\* lines 109-135: entry, run-parameter printing, resolution of time_info
Validate(r) ==
  /\ pc[r] = "start"
  /\ old_settings' = [old_settings EXCEPT ![r] = np_err[r]]
  /\ np_err' = [np_err EXCEPT ![r] = "ignore"]
  /\ out' = [out EXCEPT ![r] = PrintedCopy(self, r, root)]
  /\ self' = SelfAfterPrint(self, r, root)
  /\ LET res == ResolveTimeInfo(time_info, r, root)
     IN  /\ t_output' = [t_output EXCEPT ![r] = res.t]
         /\ pc' = [pc EXCEPT ![r] = IF res.outcome = "ok" THEN "partition"
                                     ELSE IF res.outcome = "exit" THEN "exited"
                                     ELSE "raised"]
  /\ UNCHANGED << comm, root, time_info, sampling, history, nt_loc, local_seeds,
                  runcount, list_of_local_data, list_of_dhwdt_abs2, outdat,
                  dhwdt_abs_totals, ret, gather_buf, scatter_buf, reduce_buf,
                  reduce2_buf, normalize_calls, colls, sampled >>

\* lines 137-147 (and, off the coordinator, 155-160 up to the blocking
\* receive): round robin, comm.gather, entry into comm.Scatterv
Partition(r) ==
  /\ pc[r] = "partition"
  /\ LET n == NtLoc(r, self.n_t, comm.size)
     IN  /\ nt_loc' = [nt_loc EXCEPT ![r] = n]
         /\ gather_buf' = [gather_buf EXCEPT ![r] = [full |-> TRUE, val |-> n]]
  /\ pc' = [pc EXCEPT ![r] = IF r = root THEN "gather" ELSE "scatterv"]
  /\ colls' = [colls EXCEPT ![r] = IF r = root THEN @ \o << "gather" >>
                                    ELSE @ \o << "gather", "Scatterv" >>]
  /\ UNCHANGED << config, history, out, np_err, old_settings, sampled, t_output, local_seeds, runcount, list_of_local_data,
                  list_of_dhwdt_abs2, outdat, dhwdt_abs_totals, ret,
                  scatter_buf, reduce_buf, reduce2_buf, normalize_calls >>

\* lines 147-160 on the coordinator: comm.gather returns once every rank has
\* contributed; seeds and displacements are built and scattered
RootScatterv ==
  /\ pc[root] = "gather"
  /\ \A q \in Ranks : gather_buf[q].full
  /\ LET all_ntlocs == [ i \in 1..comm.size |-> gather_buf[i - 1].val ]
         all_seeds  == AllSeeds(self.n_t)
         all_displacements == AllDisplacements(all_ntlocs, root)
     IN  \E slices \in [ Ranks -> UNION { ScattervSlices(all_seeds, all_ntlocs,
                                             all_displacements, q) : q \in Ranks } ] :
           /\ \A q \in Ranks :
                slices[q] \in ScattervSlices(all_seeds, all_ntlocs,
                                             all_displacements, q)
           /\ scatter_buf' = [ q \in Ranks |->
                                 IF q = root THEN scatter_buf[q]
                                 ELSE [full |-> TRUE, val |-> slices[q]] ]
           /\ local_seeds' = [local_seeds EXCEPT ![root] = slices[root]]
  /\ pc' = [pc EXCEPT ![root] = "loop"]
  /\ colls' = [colls EXCEPT ![root] = @ \o << "Scatterv" >>]
  /\ UNCHANGED << config, history, out, np_err, old_settings, sampled, t_output, nt_loc, runcount, list_of_local_data,
                  list_of_dhwdt_abs2, outdat, dhwdt_abs_totals, ret, gather_buf,
                  reduce_buf, reduce2_buf, normalize_calls >>

\* line 159-160 off the coordinator: comm.Scatterv returns with the slice
RecvScatterv(r) ==
  /\ r # root
  /\ pc[r] = "scatterv"
  /\ scatter_buf[r].full
  /\ local_seeds' = [local_seeds EXCEPT ![r] = scatter_buf[r].val]
  /\ pc' = [pc EXCEPT ![r] = "loop"]
  /\ UNCHANGED << config, history, out, np_err, old_settings, sampled, t_output, nt_loc, runcount, list_of_local_data,
                  list_of_dhwdt_abs2, outdat, dhwdt_abs_totals, ret, gather_buf,
                  scatter_buf, reduce_buf, reduce2_buf, normalize_calls, colls >>

\* lines 167-193: one pass of the trajectory loop
Trajectory(r) ==
  /\ pc[r] = "loop"
  /\ runcount[r] < nt_loc[r]
  /\ \E outcome \in IntegrateOutcomes(t_output[r]) :
       IF outcome = "ok"
         THEN LET seed == SampleSeed(local_seeds[r], runcount[r], self.seed_offset)
              IN  /\ list_of_local_data' =
                       [list_of_local_data EXCEPT ![r] =
                          Append(@, LocalData(sampling, seed, self.verbose))]
                  /\ list_of_dhwdt_abs2' =
                       IF self.verbose
                         THEN [list_of_dhwdt_abs2 EXCEPT ![r] =
                                 Append(@, DhwdtAbs2(sampling, seed))]
                         ELSE list_of_dhwdt_abs2
                  /\ sampled' = [sampled EXCEPT ![r] = Append(@, seed)]
                  /\ runcount' = [runcount EXCEPT ![r] = @ + 1]
                  /\ pc' = pc
         ELSE /\ pc' = [pc EXCEPT ![r] = "raised"]
              /\ UNCHANGED << list_of_local_data, list_of_dhwdt_abs2, runcount,
                              sampled >>
  /\ UNCHANGED << config, history, out, np_err, old_settings, t_output, nt_loc, local_seeds, outdat, dhwdt_abs_totals,
                  ret, gather_buf, scatter_buf, reduce_buf, reduce2_buf,
                  normalize_calls, colls >>

AfterReduceAlwaysDiag == "diag"

\* line 199: the second reduction is issued only when verbose
AfterReduce == IF self.verbose THEN "diag" ELSE "finish"

\* lines 197-198: sum_reduce_all_data.  A rank other than the coordinator
\* hands in its local sum; the coordinator returns with the global sum once
\* every rank has handed in.
Reduce(r) ==
  /\ pc[r] = "loop"
  /\ runcount[r] >= nt_loc[r]
  /\ r = root => \A q \in Ranks \ { root } : reduce_buf[q].full
  /\ reduce_buf' = [reduce_buf EXCEPT ![r] =
                      [full |-> TRUE, val |-> SeqSum(list_of_local_data[r])]]
  /\ outdat' = [outdat EXCEPT ![r] =
                  IF r = root
                    THEN SumReduced(SeqSum([ i \in 1..comm.size |-> reduce_buf'[i - 1].val ]))
                    ELSE None]
  /\ colls' = [colls EXCEPT ![r] = @ \o << "reduce" >>]
  /\ pc' = [pc EXCEPT ![r] = AfterReduce]
  /\ UNCHANGED << config, history, out, np_err, old_settings, sampled, t_output, nt_loc, local_seeds, runcount,
                  list_of_local_data, list_of_dhwdt_abs2, dhwdt_abs_totals, ret,
                  gather_buf, scatter_buf, reduce2_buf, normalize_calls >>

\* lines 199-207 (verbose only): reduction of the energy-drift accumulator
ReduceDiag(r) ==
  /\ pc[r] = "diag"
  /\ r = root => \A q \in Ranks \ { root } : reduce2_buf[q].full
  /\ reduce2_buf' = [reduce2_buf EXCEPT ![r] =
                       [full |-> TRUE, val |-> SeqSum(list_of_dhwdt_abs2[r])]]
  /\ dhwdt_abs_totals' = [dhwdt_abs_totals EXCEPT ![r] =
       IF r = root
         THEN [kind |-> "data",
               raw |-> SeqSum([ i \in 1..comm.size |-> reduce2_buf'[i - 1].val ]),
               div |-> self.n_t * self.latsize * self.latsize]
         ELSE None]
  /\ colls' = [colls EXCEPT ![r] = @ \o << "reduce" >>]
  /\ pc' = [pc EXCEPT ![r] = "finish"]
  /\ UNCHANGED << config, history, out, np_err, old_settings, sampled, t_output, nt_loc, local_seeds, runcount,
                  list_of_local_data, list_of_dhwdt_abs2, outdat, ret, gather_buf,
                  scatter_buf, reduce_buf, normalize_calls >>

\* lines 209-222: normalization on the coordinator, return
Finish(r) ==
  /\ pc[r] = "finish"
  /\ IF Normalizes(r, root)
       THEN /\ outdat' = [outdat EXCEPT ![r] =
                            Normalized(@, self.n_t, self.latsize)]
            /\ normalize_calls' = [normalize_calls EXCEPT ![r] = @ + 1]
       ELSE UNCHANGED << outdat, normalize_calls >>
  /\ np_err' = [np_err EXCEPT ![r] = RestoredSettings(old_settings[r])]
  /\ ret' = [ret EXCEPT ![r] = ReturnValue(r, root, outdat'[r])]
  /\ pc' = [pc EXCEPT ![r] = "done"]
  /\ UNCHANGED << config, history, out, old_settings, sampled, t_output, nt_loc, local_seeds, runcount,
                  list_of_local_data, list_of_dhwdt_abs2, dhwdt_abs_totals,
                  gather_buf, scatter_buf, reduce_buf, reduce2_buf, colls >>

Next ==
  \/ \E r \in Ranks : Validate(r)
  \/ \E r \in Ranks : Partition(r)
  \/ RootScatterv
  \/ \E r \in Ranks : RecvScatterv(r)
  \/ \E r \in Ranks : Trajectory(r)
  \/ \E r \in Ranks : Reduce(r)
  \/ \E r \in Ranks : ReduceDiag(r)
  \/ \E r \in Ranks : Finish(r)

Spec == Init /\ [][Next]_vars

\* The seeds handed to sample() on any rank in the current run
AllSampled == UNION { { sampled[r][j] : j \in 1..Len(sampled[r]) } : r \in Ranks }

\* A second system object that differs from the first in its verbose flag
\* only is run on the same communicator with the same arguments, after the
\* first run has returned on every process.
SecondRun ==
  /\ prior = NoData
  /\ \A r \in Ranks : pc[r] = "done"
  /\ prior' = ret[root]
  /\ prior_sampled' = [seed_offset |-> self.seed_offset, seeds |-> AllSampled]
  /\ self' = [self EXCEPT !.verbose = ~ @]
  /\ entry_self' = self'
  /\ entry_err' = np_err
  /\ UNCHANGED << comm, root, time_info, sampling, np_err >>
  /\ pc' = [ r \in Ranks |-> "start" ]
  /\ t_output' = [ r \in Ranks |-> NoGrid ]
  /\ nt_loc' = [ r \in Ranks |-> 0 ]
  /\ local_seeds' = [ r \in Ranks |-> << >> ]
  /\ runcount' = [ r \in Ranks |-> 0 ]
  /\ list_of_local_data' = [ r \in Ranks |-> << >> ]
  /\ list_of_dhwdt_abs2' = [ r \in Ranks |-> << >> ]
  /\ outdat' = [ r \in Ranks |-> NoData ]
  /\ dhwdt_abs_totals' = [ r \in Ranks |-> NoData ]
  /\ ret' = [ r \in Ranks |-> NoData ]
  /\ gather_buf' = [ r \in Ranks |-> Empty ]
  /\ scatter_buf' = [ r \in Ranks |-> EmptySeq ]
  /\ reduce_buf' = [ r \in Ranks |-> Empty ]
  /\ reduce2_buf' = [ r \in Ranks |-> Empty ]
  /\ normalize_calls' = [ r \in Ranks |-> 0 ]
  /\ colls' = [ r \in Ranks |-> << >> ]
  /\ out' = [ r \in Ranks |-> { } ]
  /\ old_settings' = [ r \in Ranks |-> "unset" ]
  /\ sampled' = [ r \in Ranks |-> << >> ]

NextTwoRuns == Next \/ SecondRun

SpecTwoRuns == Init /\ [][NextTwoRuns]_vars

\* Every process is back at the entry of dtwa_bbgky
Reentry ==
  /\ pc' = [ r \in Ranks |-> "start" ]
  /\ t_output' = [ r \in Ranks |-> NoGrid ]
  /\ nt_loc' = [ r \in Ranks |-> 0 ]
  /\ local_seeds' = [ r \in Ranks |-> << >> ]
  /\ runcount' = [ r \in Ranks |-> 0 ]
  /\ list_of_local_data' = [ r \in Ranks |-> << >> ]
  /\ list_of_dhwdt_abs2' = [ r \in Ranks |-> << >> ]
  /\ outdat' = [ r \in Ranks |-> NoData ]
  /\ dhwdt_abs_totals' = [ r \in Ranks |-> NoData ]
  /\ ret' = [ r \in Ranks |-> NoData ]
  /\ gather_buf' = [ r \in Ranks |-> Empty ]
  /\ scatter_buf' = [ r \in Ranks |-> EmptySeq ]
  /\ reduce_buf' = [ r \in Ranks |-> Empty ]
  /\ reduce2_buf' = [ r \in Ranks |-> Empty ]
  /\ normalize_calls' = [ r \in Ranks |-> 0 ]
  /\ colls' = [ r \in Ranks |-> << >> ]
  /\ out' = [ r \in Ranks |-> { } ]
  /\ old_settings' = [ r \in Ranks |-> "unset" ]
  /\ sampled' = [ r \in Ranks |-> << >> ]

\* One well-formed grid, one sampling scheme: the runs whose time input and
\* scheme play no part in what is checked
PlainInputs ==
  /\ time_info.tag = "list"
  /\ time_info.times = << <<0, 1>>, <<1, 1>> >>
  /\ sampling = "spr"

\* seed_offset values of a second system object
SecondOffsets == Offsets \cup { 3, 5 }

\* A second system object that differs from the first in its seed_offset
\* only is run after the first run has returned on every process.
SecondRunOffset ==
  /\ prior = NoData
  /\ \A r \in Ranks : pc[r] = "done"
  /\ prior' = ret[root]
  /\ prior_sampled' = [seed_offset |-> self.seed_offset, seeds |-> AllSampled]
  /\ \E o \in SecondOffsets \ { self.seed_offset } :
       self' = [self EXCEPT !.seed_offset = o]
  /\ entry_self' = self'
  /\ entry_err' = np_err
  /\ UNCHANGED << comm, root, time_info, sampling, np_err >>
  /\ Reentry

InitTwoOffsets == Init /\ PlainInputs

NextTwoOffsets == Next \/ SecondRunOffset

SpecTwoOffsets == InitTwoOffsets /\ [][NextTwoOffsets]_vars

\* Every MPI process is a running operating-system process: a step of
\* dtwa_bbgky that stays possible on a rank is eventually taken.
RankStep(r) ==
  \/ Validate(r)
  \/ Partition(r)
  \/ (r = root /\ RootScatterv)
  \/ RecvScatterv(r)
  \/ Trajectory(r)
  \/ Reduce(r)
  \/ ReduceDiag(r)
  \/ Finish(r)

Fairness == \A r \in 0..(MaxSize - 1) : WF_vars(r \in Ranks /\ RankStep(r))

\* The runs checked for termination: one sampling scheme, no seed offset,
\* and of the ranges those from 0 with 1, 2 or MaxSteps steps
InitLive ==
  /\ Init
  /\ sampling = "spr"
  /\ self.seed_offset = 0
  /\ time_info.tag = "tuple" =>
       (time_info.t_init = 0 /\ time_info.n_steps \in { 1, 2, MaxSteps })

SpecFair == InitLive /\ [][Next]_vars /\ Fairness

\* The coordinator rank is the module constant root of consts; lines 147-160
\* are written for any rank as coordinator (root + 1 in line 152).  The runs
\* with every rank of the communicator as coordinator:
InitAnyRoot ==
  /\ InitRun(0..(MaxSize - 1))
  /\ PlainInputs
  /\ self.seed_offset = 0
  /\ InitErrDefault

SpecAnyRoot == InitAnyRoot /\ [][Next]_vars

\* The caller may have set numpy's error handling before it calls evolve:
\* the runs with either setting on each process
InitSettings ==
  /\ InitRun({ Root })
  /\ PlainInputs
  /\ self.seed_offset = 0
  /\ np_err \in [ Ranks -> ErrSettings ]
  /\ entry_err = np_err

SpecSettings == InitSettings /\ [][Next]_vars

\* ------------------------------------------------------------- properties
Partitioned(r) == gather_buf[r].full
HasSeeds(r)    == pc[r] \in { "loop", "diag", "finish", "done" }

SumOverRanks(f) == SeqSum([ i \in 1..comm.size |-> f[i - 1] ])

Abs(x) == IF x < 0 THEN -x ELSE x

\* C1: for n_t >= 1 and any comm.size, a rank that has run the round-robin
\* loop holds nt_loc = |{i in 0..n_t-1 : i mod size = rank}|; once all ranks
\* have, the local counts sum to n_t and any two differ by at most 1
\* (n_t = 8 on 3 ranks gives 3, 3, 2).
C1_RoundRobinCounts ==
  /\ self.n_t >= 1 =>
       /\ \A r \in Ranks : Partitioned(r) =>
            nt_loc[r] = Cardinality({ i \in 0..(self.n_t - 1) : i % comm.size = r })
       /\ (\A r \in Ranks : Partitioned(r)) =>
            /\ SumOverRanks(nt_loc) = self.n_t
            /\ \A r, q \in Ranks : Abs(nt_loc[r] - nt_loc[q]) <= 1
  /\ << NtLoc(0, 8, 3), NtLoc(1, 8, 3), NtLoc(2, 8, 3) >> = << 3, 3, 2 >>

C1_Witness ==
  /\ comm.size = 3
  /\ self.n_t = 4
  /\ \A r \in Ranks : Partitioned(r)
  /\ nt_loc = [ r \in Ranks |-> IF r = 0 THEN 2 ELSE 1 ]

\* How often seed v occurs in the receive buffers of all ranks
SeedCount(v) ==
  SumOverRanks([ r \in Ranks |->
    Cardinality({ j \in 1..Len(local_seeds[r]) : local_seeds[r][j] = v }) ])

\* C2: once every rank has returned from the scatter, the receive buffers
\* together hold each of 1..n_t exactly once and nothing else, and a rank
\* holds exactly nt_loc seeds.
C2_SeedsPartition ==
  (\A r \in Ranks : HasSeeds(r)) =>
    /\ \A r \in Ranks : Len(local_seeds[r]) = nt_loc[r]
    /\ \A r \in Ranks : \A j \in 1..Len(local_seeds[r]) :
         local_seeds[r][j] \in 1..self.n_t
    /\ \A v \in 1..self.n_t : SeedCount(v) = 1

C2_Witness ==
  /\ comm.size = 3
  /\ self.n_t = 4
  /\ \A r \in Ranks : HasSeeds(r)
  /\ local_seeds = [ r \in Ranks |->
                       IF r = 0 THEN << 1, 2 >> ELSE IF r = 1 THEN << 3 >> ELSE << 4 >> ]

\* The serial reference: the contributions of seeds 1..n summed in order
RECURSIVE SerialSum(_)
SerialSum(n) ==
  IF n <= 0 THEN 0
  ELSE SerialSum(n - 1) + Observables(sampling, n + self.seed_offset)

\* C3: for n_t >= 1 the dataset the coordinator returns is the serial sum
\* of the contributions of seeds 1..n_t divided by n_t, whatever comm.size
\* is (so a run on several ranks returns what a run on one rank returns).
C3_WorkerCountIndependent ==
  (self.n_t >= 1 /\ pc[root] = "done") =>
    ret[root] = [kind |-> "data", raw |-> SerialSum(self.n_t), div |-> self.n_t]

C3_Witness ==
  /\ comm.size = 3
  /\ self.n_t = 4
  /\ self.seed_offset = 1
  /\ sampling = "1-0"
  /\ pc[root] = "done"
  /\ ret[root] = [kind |-> "data", raw |-> 58, div |-> 4]

Malformed(ti) == ti.tag \notin { "tuple", "list" }

\* C4: a time_info that is neither a 3-tuple nor a sequence of times makes
\* every process terminate with a non-zero exit status; no process goes on
\* past the validation and none returns a dataset.
C4_MalformedTimeTerminates ==
  Malformed(time_info) =>
    \A r \in Ranks :
      /\ pc[r] \in { "start", "exited" }
      /\ pc[r] = "exited" => ResolveTimeInfo(time_info, r, root).status # 0
      /\ ret[r] = NoData

\* C5: with a negative n_t no process issues a collective operation
\* (the run is ended on every process before the gather).
C5_NegativeCountNoCollective ==
  self.n_t < 0 => \A r \in Ranks : colls[r] = << >> /\ pc[r] # "done"

\* C6: a process that has returned from dtwa_bbgky returned a dataset if it
\* is the coordinator and None otherwise.
C6_ReturnContract ==
  \A r \in Ranks :
    /\ pc[r] = "done" => (IF r = root THEN ret[r].kind = "data" ELSE ret[r] = None)
    /\ pc[r] # "done" => ret[r] = NoData

C6_Witness ==
  /\ comm.size = 3
  /\ \A r \in Ranks : pc[r] = "done"
  /\ ret[root].kind = "data"
  /\ \A r \in Ranks \ { root } : ret[r] = None

\* t_init + k * dt as a rational over the denominator n_steps - 1
GridPoint(ti, k) ==
  << ti.t_init * (ti.n_steps - 1) + k * (ti.t_final - ti.t_init), ti.n_steps - 1 >>

C8_GridHasStepsPoints ==
  \A r \in Ranks :
    (time_info.tag = "tuple" /\ t_output[r].kind = "array") =>
      Len(t_output[r].pts) = time_info.n_steps

\* C9: of two runs that differ in the verbose flag only, the second returns
\* on the coordinator the dataset the first returned.
C9_VerboseIndependent ==
  (prior # NoData /\ pc[root] = "done") => ret[root] = prior

C9_Witness ==
  /\ prior.kind = "data"
  /\ prior.raw > 0
  /\ self.verbose
  /\ comm.size = 2
  /\ self.n_t = 3
  /\ pc[root] = "done"
  /\ dhwdt_abs_totals[root].kind = "data"
  /\ dhwdt_abs_totals[root].raw > 0
  /\ ret[root] = prior

ReduceComplete == \A q \in Ranks : reduce_buf[q].full

\* C10: normalize_data is never called on a rank other than the coordinator,
\* never before the reduction of the observables is complete and never
\* twice; when the coordinator returns it has been called exactly once, the
\* returned accumulator being the reduced sum divided once by n_t.
C10_NormalizeOnce ==
  /\ \A r \in Ranks :
       /\ normalize_calls[r] <= 1
       /\ normalize_calls[r] > 0 => (r = root /\ ReduceComplete)
  /\ pc[root] = "done" =>
       /\ normalize_calls[root] = 1
       /\ ret[root].raw = SumOverRanks([ r \in Ranks |-> reduce_buf[r].val ])
       /\ ret[root].div = self.n_t

C10_Witness ==
  /\ comm.size = 3
  /\ self.n_t = 4
  /\ \A r \in Ranks : pc[r] = "done"
  /\ normalize_calls = [ r \in Ranks |-> IF r = root THEN 1 ELSE 0 ]
  /\ ret[root].div = 4

\* C11 (as amended): of two runs with the same n_t whose seed_offset values
\* differ by at least n_t, no seed handed to sample() in one run is handed
\* to sample() in the other.
C11_FarOffsetsDisjoint ==
  (prior.kind = "data" /\ Abs(self.seed_offset - prior_sampled.seed_offset) >= self.n_t) =>
    AllSampled \cap prior_sampled.seeds = { }

C11_Witness ==
  /\ prior.kind = "data"
  /\ self.n_t = 3
  /\ comm.size = 2
  /\ Abs(self.seed_offset - prior_sampled.seed_offset) = 3
  /\ \A r \in Ranks : pc[r] = "done"
  /\ Cardinality(AllSampled) = 3
  /\ Cardinality(prior_sampled.seeds) = 3
  /\ AllSampled \cap prior_sampled.seeds = { }

\* C11 (as stated): of two runs with the same n_t and different seed_offset
\* values, no seed handed to sample() in one run is handed to sample() in
\* the other.
C11_DistinctOffsetsDisjoint ==
  (prior.kind = "data" /\ self.seed_offset # prior_sampled.seed_offset) =>
    AllSampled \cap prior_sampled.seeds = { }

\* a < b for rationals with positive denominators
RatLess(a, b) == a[1] * b[2] < b[1] * a[2]

StrictlyIncreasing(pts) == \A i \in 1..(Len(pts) - 1) : RatLess(pts[i], pts[i + 1])

\* A range with t0 < t1 and at least two steps, or a non-empty increasing list
ValidTime(ti) ==
  \/ ti.tag = "tuple" /\ ti.n_steps >= 2 /\ ti.t_init < ti.t_final
  \/ ti.tag = "list" /\ ti.times # << >> /\ StrictlyIncreasing(ti.times)

AllDone == \A r \in Ranks : pc[r] = "done"

\* C12: with a valid time input and n_t >= 0 (also n_t < comm.size, where
\* some ranks have no trajectory), every rank eventually returns from
\* dtwa_bbgky, and the ranks that have returned have issued the same
\* collective operations in the same order.
C12_AllReturn ==
  (ValidTime(time_info) /\ self.n_t >= 0) =>
    /\ <> AllDone
    /\ [] (\A r, q \in Ranks :
             (pc[r] = "done" /\ pc[q] = "done") => colls[r] = colls[q])

C12_Witness ==
  /\ ValidTime(time_info)
  /\ comm.size = 3
  /\ self.n_t = 2
  /\ self.verbose
  /\ nt_loc[2] = 0
  /\ AllDone
  /\ \A r \in Ranks : colls[r] = << "gather", "Scatterv", "reduce", "reduce" >>

IsPrefix(s, t) == Len(s) <= Len(t) /\ \A i \in 1..Len(s) : s[i] = t[i]

DiagCollectives == IF self.verbose THEN << "reduce" >> ELSE << >>

CollectivesWithGather == << "gather", "Scatterv", "reduce" >> \o DiagCollectives

CollectivesNoGather == << "Scatterv", "reduce" >> \o DiagCollectives

\* C13 (amended): in one run a rank issues, in this order, one gather of the
\* local counts, one Scatterv of the seeds, one sum-reduction, and a second
\* reduction exactly when verbose; nothing else, and nothing between the
\* Scatterv and the first reduction (the trajectory loop communicates nothing).
C13_CollectivesWithGather ==
  \A r \in Ranks :
    /\ IsPrefix(colls[r], CollectivesWithGather)
    /\ pc[r] = "loop" => colls[r] = << "gather", "Scatterv" >>
    /\ pc[r] = "done" => colls[r] = CollectivesWithGather

C13_Witness ==
  /\ comm.size = 3
  /\ self.n_t = 4
  /\ ~ self.verbose
  /\ AllDone
  /\ \A r \in Ranks : colls[r] = << "gather", "Scatterv", "reduce" >>

\* C13 as stated: the only collectives of a run are one Scatterv and one
\* sum-reduction (two when verbose).
C13_OnlyScatterAndReduce ==
  \A r \in Ranks : IsPrefix(colls[r], CollectivesNoGather)

\* The rank hands t_output to odeint for its next trajectory (line 175)
Integrating(r) == pc[r] = "loop" /\ runcount[r] < nt_loc[r]

\* C14: every time grid that reaches the integration has at least one point
\* and is strictly increasing, whether built from a range or taken from an
\* explicit sequence.
C14_GridsIncreasing ==
  \A r \in Ranks :
    Integrating(r) =>
      /\ t_output[r].kind = "array"
      /\ Len(t_output[r].pts) >= 1
      /\ StrictlyIncreasing(t_output[r].pts)

Validated(r) == pc[r] # "start"

\* C15: lines 125-135 give the same outcome and the same time grid on every
\* rank for the same time_info: the rank decides at most whether a message
\* is printed (time_info does not change, so this is evaluated at the call);
\* the ranks that have passed the validation hold identical grids, and a rank
\* terminates there exactly if the others do.
C15_SameOutcomeEveryRank ==
  /\ (\A r \in Ranks : ~ Validated(r)) =>
       \A r, q \in Ranks :
         LET a == ResolveTimeInfo(time_info, r, root)
             b == ResolveTimeInfo(time_info, q, root)
         IN  a.outcome = b.outcome /\ a.t = b.t /\ a.status = b.status
  /\ \A r, q \in Ranks :
       (Validated(r) /\ Validated(q)) =>
         /\ t_output[r] = t_output[q]
         /\ (pc[r] = "exited") = (pc[q] = "exited")

C15_Witness ==
  /\ comm.size = 3
  /\ time_info.tag = "tuple"
  /\ \A r \in Ranks : Validated(r) /\ pc[r] = "partition"
  /\ \A r \in Ranks : t_output[r].kind = "array" /\ Len(t_output[r].pts) = 4
  /\ t_output[0] = t_output[1] /\ t_output[1] = t_output[2]

\* C16: the system object is not changed by a run: n_t, seed_offset,
\* verbose, latsize, jmat, deltamn, dsdotdg and delta_eps_tensor keep the
\* values they had at the call, also when the verbose printing blanks the
\* model fields of the copy.
C16_ConfigUnchanged == self = entry_self

C16_Witness ==
  /\ self.verbose
  /\ comm.size = 2
  /\ self.n_t = 3
  /\ AllDone
  /\ out[root] = { Blanked(entry_self) }
  /\ \A o \in out[root] : o.jmat = 0 /\ o.deltamn = 0 /\ o.dsdotdg = 0
                              /\ o.delta_eps_tensor = 0
  /\ self.jmat = 1 /\ self.deltamn = 1 /\ self.dsdotdg = 1
  /\ self.delta_eps_tensor = 1

Gathered == \A q \in Ranks : gather_buf[q].full

\* all_ntlocs as gathered on the coordinator (line 147)
GatheredCounts == [ i \in 1..comm.size |-> gather_buf[i - 1].val ]

SliceInRange(d, c, n) == c > 0 => (d >= 0 /\ d + c <= n)

SlicesDisjoint(d1, c1, d2, c2) ==
  (c1 > 0 /\ c2 > 0) => (d1 + c1 <= d2 \/ d2 + c2 <= d1)

\* C17: for every coordinator rank, the displacements of lines 152-153 give
\* each rank a slice [disp, disp + nt_loc) of the seed array that lies in
\* [0, n_t) and overlaps no other rank's slice.
C17_SlicesAnyRoot ==
  (Gathered /\ self.n_t >= 0) =>
    LET cnt == GatheredCounts
        d   == AllDisplacements(cnt, root)
    IN  /\ \A r \in Ranks : SliceInRange(d[r + 1], cnt[r + 1], self.n_t)
        /\ \A r, q \in Ranks :
             r # q => SlicesDisjoint(d[r + 1], cnt[r + 1], d[q + 1], cnt[q + 1])

====
